---- MODULE Spec2Model ----
(***************************************************************************)
(* Lexer and parsers of lab2: tokenize (main.hpp and main.cpp), the        *)
(* table-driven LRParser (main.hpp).  Strings are sequences of one-        *)
(* character strings; stacks are sequences whose last element is the top.  *)
(***************************************************************************)
EXTENDS Integers, Sequences, FiniteSets, TLC

VARIABLES
    variant,     \* which tokenize is running: "hpp" (main.hpp) or "cpp" (main.cpp)
    input,       \* tokenize: the input string
    i,           \* tokenize: the scan index (0-based, as in the source)
    lexError,    \* tokenize: the invalid-character branch was taken
    tokens,      \* tokenize: the vector being built / LRParser::tokens
    tokensEnd,   \* LRParser: tokens.size() == Len(tokens) is known
    pos,         \* LRParser::pos
    stateStack,  \* parse: stateStack
    valueStack,  \* parse: valueStack
    prod,        \* parse, REDUCE: index of the production being reduced
    children,    \* parse, REDUCE: the children vector
    popped,      \* parse, REDUCE: the loop counter i of the pop loop
    outcome,     \* which return of parse was taken
    result,      \* what parse returned: <<>> is nullptr, <<n>> the node n
    pc,          \* control position of tokenize and of LRParser::parse
    shifts,      \* history: SHIFT steps taken by this call of parse
    atReduce,    \* history: the two stacks when the current REDUCE began
    call,        \* history: 0 for a single call of parse; with two calls,
                 \* 1 in the first and 2 in the second
    trace,       \* history: (stateStack, valueStack, pos) at each loop head,
                 \* recorded when parse is called twice
    first,       \* history: trace, outcome and result of the first call
    parserPos,   \* Parser::pos (main.cpp)
    node,        \* parseStatementList: node
    whileNode,   \* parseStatement: whileNode
    cond,        \* parseCondition: cond
    assign,      \* parseBody: assign
    parserPc,    \* control position of Parser::parse
    parserOutcome, \* how Parser::parse ended: "returned" or "exit"
    ast          \* main: what Parser::parse returned, <<>> before that

vars == <<variant, input, i, lexError, tokens, tokensEnd, pos, stateStack,
          valueStack, prod, children, popped, outcome, result, pc, shifts,
          atReduce, call, trace, first, parserPos, node, whileNode, cond,
          assign, parserPc, parserOutcome, ast>>

lexVars == <<variant, input, i, lexError>>
historyVars == <<shifts, atReduce, call, trace, first>>
lrVars == <<tokensEnd, pos, stateStack, valueStack, prod, children, popped,
            outcome, result, shifts, atReduce, call, trace, first>>
rdVars == <<parserPos, node, whileNode, cond, assign, parserPc, parserOutcome,
            ast>>

\* ------------------------------------------------------------- bounds
\* Longest token vector handed to LRParser.
MaxTokens == 22
\* Longest input of tokenize, in pieces of InputPieces.
MaxPieces == 3
\* longest token vector on which parse() is called a second time
MaxTokensTwice == 17
\* most pieces appended to the beginning of a test input of main()
MaxTail == 1

\* ------------------------------------------------------------- strings
Min(a, b) == IF a < b THEN a ELSE b

\* std::string::substr(start, n) with a 0-based start, clamped at the end.
substr(s, start, n) == SubSeq(s, start + 1, Min(start + n, Len(s)))

kwWhile == <<"w", "h", "i", "l", "e">>
kwDone == <<"d", "o", "n", "e">>
opAssign == <<":", "=">>

\* ------------------------------------------------------------- tokens
TokenType == {"WHILE", "DONE", "SEMICOLON", "LPAREN", "RPAREN", "IDENTIFIER",
              "ROMAN_NUMERAL", "ASSIGN", "LESS", "GREATER", "EQUAL", "END"}

\* Token(t, v) of main.hpp.
Token(t, v) == [type |-> t, value |-> v]

\* Token(t, v, p) of main.cpp.
TokenAt(t, v, p) == [type |-> t, value |-> v, pos |-> p]

\* ASTNode(t, v) with its children.
ASTNode(t, v, ch) == [type |-> t, value |-> v, children |-> ch]

Leaf(t, v) == ASTNode(t, v, <<>>)

\* ------------------------------------------------------------- LRParser tables
Shift(n) == [action |-> "SHIFT", value |-> n]
Reduce(n) == [action |-> "REDUCE", value |-> n]
Accept == [action |-> "ACCEPT", value |-> 0]

\* productions[p].lhs
lhs(p) ==
    CASE p = 0 -> "S'"
      [] p = 1 -> "Program"
      [] p \in {2, 3} -> "StatementList"
      [] p = 4 -> "Statement"
      [] p = 5 -> "Condition"
      [] p = 6 -> "Body"
      [] p = 7 -> "Assignment"
      [] p \in {8, 9} -> "Expression"
      [] p \in {10, 11, 12} -> "RelOp"

\* productions[p].rhsSize
rhsSize(p) ==
    CASE p \in {0, 1, 2, 6, 8, 9, 10, 11, 12} -> 1
      [] p \in {3, 5, 7} -> 3
      [] p = 4 -> 7

\* productions[p].builder(ch); ch[k + 1] is the source's children[k].
builder(p, ch) ==
    CASE p = 0 -> ch[1]
      [] p = 1 -> ASTNode("Program", <<>>, <<ch[1]>>)
      [] p = 2 -> ASTNode("StatementList", <<>>, <<ch[1]>>)
      [] p = 3 -> ASTNode("StatementList", <<>>, <<ch[1], ch[3]>>)
      [] p = 4 -> ASTNode("WhileLoop", <<>>, <<ch[3], ch[5]>>)
      [] p = 5 -> ASTNode("Condition", <<>>, <<ch[1], ch[2], ch[3]>>)
      [] p = 6 -> ch[1]
      [] p = 7 -> ASTNode("Assignment", <<>>,
                          <<Leaf("LValue", ch[1].value), ch[3]>>)
      [] p = 8 -> Leaf("Identifier", ch[1].value)
      [] p = 9 -> Leaf("RomanNumeral", ch[1].value)
      [] p \in {10, 11, 12} -> Leaf("RelOp", ch[1].value)

\* The rows of states 4, 5, 9..14 and 18: an expression must follow.
ExprRowWithRelOp ==
    ("IDENTIFIER" :> Shift(6)) @@ ("ROMAN_NUMERAL" :> Shift(7)) @@
    ("LESS" :> Shift(9)) @@ ("GREATER" :> Shift(10)) @@ ("EQUAL" :> Shift(11))
ExprRow == ("IDENTIFIER" :> Shift(6)) @@ ("ROMAN_NUMERAL" :> Shift(7))

\* The rows of states 6 and 7: reduce by Expression production p.
ExprReduceRow(p) ==
    [t \in {"LESS", "GREATER", "EQUAL", "RPAREN", "ASSIGN", "DONE"} |-> Reduce(p)]

actionTable ==
    (0 :> (("WHILE" :> Shift(2)) @@ ("IDENTIFIER" :> Shift(3)))) @@
    (1 :> ("END" :> Accept)) @@
    (2 :> ("LPAREN" :> Shift(4))) @@
    (3 :> ("ASSIGN" :> Shift(5))) @@
    (4 :> ExprRow) @@
    (5 :> ExprRow) @@
    (6 :> ExprReduceRow(8)) @@
    (7 :> ExprReduceRow(9)) @@
    (8 :> (("LESS" :> Shift(9)) @@ ("GREATER" :> Shift(10)) @@
           ("EQUAL" :> Shift(11)))) @@
    (9 :> ExprRow) @@
    (10 :> ExprRow) @@
    (11 :> ExprRow) @@
    (12 :> ExprRow) @@
    (13 :> ExprRow) @@
    (14 :> ExprRow) @@
    (15 :> ("RPAREN" :> Shift(16))) @@
    (16 :> ("IDENTIFIER" :> Shift(17))) @@
    (17 :> ("ASSIGN" :> Shift(18))) @@
    (18 :> ExprRow) @@
    (19 :> ("DONE" :> Shift(20))) @@
    (20 :> (("SEMICOLON" :> Shift(21)) @@ ("END" :> Reduce(4)) @@
            ("WHILE" :> Reduce(4)))) @@
    (21 :> (("WHILE" :> Shift(2)) @@ ("IDENTIFIER" :> Shift(3)))) @@
    (22 :> (("END" :> Reduce(1)) @@ ("WHILE" :> Reduce(1)))) @@
    (23 :> ("RPAREN" :> Reduce(5))) @@
    (24 :> ("RPAREN" :> Reduce(5))) @@
    (25 :> ("RPAREN" :> Reduce(5))) @@
    (26 :> (("DONE" :> Reduce(7)) @@ ("SEMICOLON" :> Reduce(7)) @@
            ("END" :> Reduce(7)))) @@
    (27 :> ("DONE" :> Reduce(6))) @@
    (28 :> (("END" :> Reduce(2)) @@ ("WHILE" :> Reduce(2)) @@
            ("SEMICOLON" :> Reduce(2)))) @@
    (29 :> (("END" :> Reduce(3)) @@ ("WHILE" :> Reduce(3))))

gotoTableExpressionLoop ==
    (0 :> (("Program" :> 1) @@ ("StatementList" :> 28) @@ ("Statement" :> 20))) @@
    (4 :> (("Condition" :> 15) @@ ("Expression" :> 6))) @@
    (5 :> ("Expression" :> 26)) @@
    (9 :> ("Expression" :> 23)) @@
    (10 :> ("Expression" :> 24)) @@
    (11 :> ("Expression" :> 25)) @@
    (16 :> (("Body" :> 19) @@ ("Assignment" :> 27))) @@
    (18 :> ("Expression" :> 26)) @@
    (21 :> (("StatementList" :> 29) @@ ("Statement" :> 20))) @@
    (28 :> ("Program" :> 1))
gotoTableUnknownTarget ==
    (0 :> (("Program" :> 1) @@ ("StatementList" :> 28) @@ ("Statement" :> 20))) @@
    (4 :> (("Condition" :> 15) @@ ("Expression" :> 8))) @@
    (5 :> ("Expression" :> 26)) @@
    (9 :> ("Expression" :> 23)) @@
    (10 :> ("Expression" :> 24)) @@
    (11 :> ("Expression" :> 25)) @@
    (16 :> (("Body" :> 30) @@ ("Assignment" :> 27))) @@
    (18 :> ("Expression" :> 26)) @@
    (21 :> (("StatementList" :> 29) @@ ("Statement" :> 20))) @@
    (28 :> ("Program" :> 1))
gotoTable ==
    (0 :> (("Program" :> 1) @@ ("StatementList" :> 28) @@ ("Statement" :> 20))) @@
    (4 :> (("Condition" :> 15) @@ ("Expression" :> 8))) @@
    (5 :> ("Expression" :> 26)) @@
    (9 :> ("Expression" :> 23)) @@
    (10 :> ("Expression" :> 24)) @@
    (11 :> ("Expression" :> 25)) @@
    (16 :> (("Body" :> 19) @@ ("Assignment" :> 27))) @@
    (18 :> ("Expression" :> 26)) @@
    (21 :> (("StatementList" :> 29) @@ ("Statement" :> 20))) @@
    (28 :> ("Program" :> 1))

\* ------------------------------------------------------------- LRParser
\* std::stack on a sequence: top is the last element.
top(st) == st[Len(st)]
push(st, x) == Append(st, x)
pop(st) == SubSeq(st, 1, Len(st) - 1)

\* pos < tokens.size() ? tokens[pos].type : TokenType::END
getCurrentTokenTypeWhilePastEnd ==
    IF pos < Len(tokens) THEN tokens[pos + 1].type ELSE "WHILE"
getCurrentTokenType == IF pos < Len(tokens) THEN tokens[pos + 1].type ELSE "END"

\* pos < tokens.size() ? tokens[pos].value : "$"
getTokenValue == IF pos < Len(tokens) THEN tokens[pos + 1].value ELSE <<"$">>

\* The texts a token of each type carries when it comes out of tokenize.
IdentifierTexts == {<<"x">>}
RomanTexts == {<<"V">>}
TextsOf(t) ==
    CASE t = "WHILE" -> {kwWhile}
      [] t = "DONE" -> {kwDone}
      [] t = "SEMICOLON" -> {<<";">>}
      [] t = "LPAREN" -> {<<"(">>}
      [] t = "RPAREN" -> {<<")">>}
      [] t = "IDENTIFIER" -> IdentifierTexts
      [] t = "ROMAN_NUMERAL" -> RomanTexts
      [] t = "ASSIGN" -> {opAssign}
      [] t = "LESS" -> {<<"<">>}
      [] t = "GREATER" -> {<<">">>}
      [] t = "EQUAL" -> {<<"=">>}
      [] t = "END" -> {<<>>}

\* Every return of parse other than the tree: return nullptr.
ReturnTopOfValueStack(why) ==
    /\ pc' = "done"
    /\ outcome' = why
    /\ result' = IF valueStack = <<>> THEN <<>> ELSE <<top(valueStack)>>
ReturnNull(why) ==
    /\ pc' = "done"
    /\ outcome' = why
    /\ result' = <<>>

\* SHIFT: stateStack.push(entry.value)
shiftStateReplacesTop(ss, n) == push(pop(ss), n)
shiftState(ss, n) == push(ss, n)

\* SHIFT: pos++
cursorKept(p) == p
nextCursor(p) == p + 1

\* SHIFT: valueStack.push(make_shared<ASTNode>("Token", tokenValue))
shiftValueDropped(vs, v) == vs
shiftValue(vs, v) == push(vs, Leaf("Token", v))

\* REDUCE: children.insert(children.begin(), valueStack.top())
insertAtEnd(ch, v) == Append(ch, v)
insertAtBegin(ch, v) == <<v>> \o ch

\* The history variables at the start of the first call of parse.
InitHistory(c) ==
    /\ shifts = 0
    /\ atReduce = [stateStack |-> <<>>, valueStack |-> <<>>]
    /\ call = c
    /\ trace = <<>>
    /\ first = [trace |-> <<>>, final |-> <<>>, outcome |-> "none",
                result |-> <<>>]

\* Parser (main.cpp) before its constructor has run.
NoParser ==
    /\ parserPos = 0
    /\ node = <<>>
    /\ whileNode = <<>>
    /\ cond = <<>>
    /\ assign = <<>>
    /\ parserPc = "off"
    /\ parserOutcome = "none"
    /\ ast = <<>>

\* LRParser(t): the token vector, handed over one element at a time.  parse
\* reads only tokens[pos] and whether pos < tokens.size(), so an element is
\* fixed at the moment the cursor first stands on it: either the vector has
\* a next token, or it ends here.  tokenize ends a vector with END and puts
\* nothing after it.
LRParserTokens ==
    /\ pc = "head"
    /\ pos = Len(tokens)
    /\ ~tokensEnd
    /\ \/ /\ Len(tokens) < MaxTokens
          /\ \E t \in TokenType : \E v \in TextsOf(t) :
                tokens' = Append(tokens, Token(t, v))
          /\ UNCHANGED tokensEnd
       \/ /\ tokensEnd' = TRUE
          /\ UNCHANGED tokens
    /\ UNCHANGED <<pos, stateStack, valueStack, prod, children, popped,
                   outcome, result, pc>>
    /\ UNCHANGED historyVars
    /\ UNCHANGED lexVars
    /\ UNCHANGED rdVars

\* One pass of the driver loop of parse up to the end of its switch, the
\* REDUCE case up to the start of its pop loop.
parseLoop ==
    /\ pc = "head"
    /\ pos < Len(tokens) \/ tokensEnd
    /\ LET currentState == top(stateStack)
           currentToken == getCurrentTokenType
           tokenValue == getTokenValue
       IN  IF currentState \notin DOMAIN actionTable
           THEN /\ ReturnNull("StateNotFound")
                /\ UNCHANGED <<pos, stateStack, valueStack, prod, children, popped,
                               shifts, atReduce>>
           ELSE IF currentToken \notin DOMAIN actionTable[currentState]
           THEN /\ ReturnNull("UnexpectedToken")
                /\ UNCHANGED <<pos, stateStack, valueStack, prod, children, popped,
                               shifts, atReduce>>
           ELSE LET entry == actionTable[currentState][currentToken]
                IN  CASE entry.action = "SHIFT" ->
                           /\ stateStack' = shiftState(stateStack, entry.value)
                           /\ valueStack' = shiftValue(valueStack, tokenValue)
                           /\ pos' = nextCursor(pos)
                           /\ shifts' = shifts + 1
                           /\ UNCHANGED <<prod, children, popped, outcome, result,
                                          pc, atReduce>>
                      [] entry.action = "REDUCE" ->
                           /\ prod' = entry.value
                           /\ children' = <<>>
                           /\ popped' = 0
                           /\ pc' = "reduce"
                           /\ atReduce' = [stateStack |-> stateStack,
                                           valueStack |-> valueStack]
                           /\ UNCHANGED <<pos, stateStack, valueStack, outcome,
                                          result, shifts>>
                      [] entry.action = "ACCEPT" ->
                           /\ IF Len(valueStack) = 1
                              THEN /\ pc' = "done"
                                   /\ outcome' = "Accept"
                                   /\ result' = <<top(valueStack)>>
                              ELSE ReturnNull("AcceptStackSize")
                           /\ UNCHANGED <<pos, stateStack, valueStack, prod,
                                          children, popped, shifts, atReduce>>
                      [] OTHER ->
                           /\ ReturnNull("ErrorEntry")
                           /\ UNCHANGED <<pos, stateStack, valueStack, prod,
                                          children, popped, shifts, atReduce>>
    /\ trace' = IF call = 0 THEN trace
                ELSE Append(trace, <<stateStack, valueStack, pos>>)
    /\ UNCHANGED <<tokens, tokensEnd, call, first>>
    /\ UNCHANGED lexVars
    /\ UNCHANGED rdVars

\* One pass of the pop loop of REDUCE: for (i = 0; i < prod.rhsSize; i++).
reducePop ==
    /\ pc = "reduce"
    /\ popped < rhsSize(prod)
    /\ IF stateStack = <<>> \/ valueStack = <<>>
       THEN /\ ReturnNull("StackEmpty")
            /\ UNCHANGED <<stateStack, valueStack, children, popped>>
       ELSE /\ stateStack' = pop(stateStack)
            /\ children' = insertAtBegin(children, top(valueStack))
            /\ valueStack' = pop(valueStack)
            /\ popped' = popped + 1
            /\ UNCHANGED <<outcome, result, pc>>
    /\ UNCHANGED <<tokens, tokensEnd, pos, prod>>
    /\ UNCHANGED historyVars
    /\ UNCHANGED lexVars
    /\ UNCHANGED rdVars

\* REDUCE after its pop loop: build the node, push it, take the GOTO.
reduceGoto ==
    /\ pc = "reduce"
    /\ popped = rhsSize(prod)
    /\ LET newNode == builder(prod, children)
           currentState == top(stateStack)
       IN  /\ valueStack' = push(valueStack, newNode)
           /\ IF currentState \notin DOMAIN gotoTable
              THEN /\ ReturnNull("NoGotoState")
                   /\ UNCHANGED stateStack
              ELSE IF lhs(prod) \notin DOMAIN gotoTable[currentState]
              THEN /\ ReturnNull("NoGotoEntry")
                   /\ UNCHANGED stateStack
              ELSE /\ stateStack' = push(stateStack, gotoTable[currentState][lhs(prod)])
                   /\ pc' = "head"
                   /\ UNCHANGED <<outcome, result>>
    /\ UNCHANGED <<tokens, tokensEnd, pos, prod, children, popped>>
    /\ UNCHANGED historyVars
    /\ UNCHANGED lexVars
    /\ UNCHANGED rdVars

\* The state at the start of parse, for any token vector: stateStack.push(0),
\* pos = 0, valueStack empty.
InitLRCalls(c) ==
    /\ variant = "hpp"
    /\ input = <<>>
    /\ i = 0
    /\ lexError = FALSE
    /\ tokens = <<>>
    /\ tokensEnd = FALSE
    /\ pos = 0
    /\ stateStack = <<0>>
    /\ valueStack = <<>>
    /\ prod = 0
    /\ children = <<>>
    /\ popped = 0
    /\ outcome = "none"
    /\ result = <<>>
    /\ pc = "head"
    /\ InitHistory(c)
    /\ NoParser

InitLR == InitLRCalls(0)

NextLR == LRParserTokens \/ parseLoop \/ reducePop \/ reduceGoto

SpecLR == InitLR /\ [][NextLR]_vars

\* ------------------------------------------------------------- tokenize
\* <cctype> in the "C" locale (of the whitespace characters, those a string
\* of this module can hold).
Whitespace == {" ", "\t", "\n", "\r"}
UpperCase == {"A", "B", "C", "D", "E", "F", "G", "H", "I", "J", "K", "L", "M",
              "N", "O", "P", "Q", "R", "S", "T", "U", "V", "W", "X", "Y", "Z"}
LowerCase == {"a", "b", "c", "d", "e", "f", "g", "h", "i", "j", "k", "l", "m",
              "n", "o", "p", "q", "r", "s", "t", "u", "v", "w", "x", "y", "z"}
Digits == {"0", "1", "2", "3", "4", "5", "6", "7", "8", "9"}
isspace(c) == c \in Whitespace
isalpha(c) == c \in UpperCase \cup LowerCase
isalnum(c) == isalpha(c) \/ c \in Digits

isRomanCharWithoutX(c) == c = "I" \/ c = "V"
isRomanChar(c) == c = "I" \/ c = "V" \/ c = "X"

\* while (i < input.length() && isalnum(input[i])) i++;  from index k on.
RECURSIVE wordEnd(_, _)
wordEnd(inp, k) ==
    IF k < Len(inp) /\ isalnum(inp[k + 1]) THEN wordEnd(inp, k + 1) ELSE k

\* bool isRoman = !word.empty(); cleared by the first character of word
\* that is not a roman character.
isRoman(word) ==
    /\ word # <<>>
    /\ \A j \in 1..Len(word) : isRomanChar(word[j])

\* The branch the if / else-if chain of the loop body takes at index k:
\* what it emits and where it leaves the scan index.
EmitSkipsOne(t, v, k, n) == [branch |-> "token", type |-> t, value |-> v,
                             start |-> k, next |-> n + 1]
Emit(t, v, k, n) == [branch |-> "token", type |-> t, value |-> v, start |-> k,
                     next |-> n]
scanWordFirst(inp, k) ==
    LET c == inp[k + 1]
    IN  IF isspace(c) THEN [branch |-> "space", next |-> k + 1]
        ELSE IF isalpha(c)
             THEN LET e == wordEnd(inp, k)
                      word == substr(inp, k, e - k)
                  IN  Emit(IF isRoman(word) THEN "ROMAN_NUMERAL" ELSE "IDENTIFIER",
                           word, k, e)
        ELSE IF c = ";" THEN Emit("SEMICOLON", <<";">>, k, k + 1)
        ELSE IF c = "(" THEN Emit("LPAREN", <<"(">>, k, k + 1)
        ELSE IF c = ")" THEN Emit("RPAREN", <<")">>, k, k + 1)
        ELSE IF k + 1 < Len(inp) /\ substr(inp, k, 2) = opAssign
             THEN Emit("ASSIGN", opAssign, k, k + 2)
        ELSE IF c = "<" THEN Emit("LESS", <<"<">>, k, k + 1)
        ELSE IF c = ">" THEN Emit("GREATER", <<">">>, k, k + 1)
        ELSE IF c = "=" THEN Emit("EQUAL", <<"=">>, k, k + 1)
        ELSE [branch |-> "error", next |-> k]
scan(inp, k) ==
    LET c == inp[k + 1]
    IN  IF isspace(c) THEN [branch |-> "space", next |-> k + 1]
        ELSE IF substr(inp, k, 5) = kwWhile THEN Emit("WHILE", kwWhile, k, k + 5)
        ELSE IF substr(inp, k, 4) = kwDone THEN Emit("DONE", kwDone, k, k + 4)
        ELSE IF c = ";" THEN Emit("SEMICOLON", <<";">>, k, k + 1)
        ELSE IF c = "(" THEN Emit("LPAREN", <<"(">>, k, k + 1)
        ELSE IF c = ")" THEN Emit("RPAREN", <<")">>, k, k + 1)
        ELSE IF k + 1 < Len(inp) /\ substr(inp, k, 2) = opAssign
             THEN Emit("ASSIGN", opAssign, k, k + 2)
        ELSE IF c = "<" THEN Emit("LESS", <<"<">>, k, k + 1)
        ELSE IF c = ">" THEN Emit("GREATER", <<">">>, k, k + 1)
        ELSE IF c = "=" THEN Emit("EQUAL", <<"=">>, k, k + 1)
        ELSE IF isalpha(c)
             THEN LET e == wordEnd(inp, k)
                      word == substr(inp, k, e - k)
                  IN  Emit(IF isRoman(word) THEN "ROMAN_NUMERAL" ELSE "IDENTIFIER",
                           word, k, e)
        ELSE [branch |-> "error", next |-> k]

\* tokens.emplace_back(...): main.cpp's Token also records its position.
emplace(t, v, p) == IF variant = "cpp" THEN TokenAt(t, v, p) ELSE Token(t, v)

\* One pass of the loop of tokenize: while (i < input.length()).  On an
\* invalid character main.hpp returns {} and main.cpp returns the tokens so
\* far followed by END.
tokenizeLoop ==
    /\ pc = "scan"
    /\ i < Len(input)
    /\ LET r == scan(input, i)
       IN  CASE r.branch = "space" ->
                  /\ i' = r.next
                  /\ UNCHANGED <<tokens, lexError, pc>>
             [] r.branch = "token" ->
                  /\ tokens' = Append(tokens, emplace(r.type, r.value, r.start))
                  /\ i' = r.next
                  /\ UNCHANGED <<lexError, pc>>
             [] r.branch = "error" ->
                  /\ lexError' = TRUE
                  /\ tokens' = IF variant = "cpp"
                               THEN Append(tokens, emplace("END", <<>>, i))
                               ELSE <<>>
                  /\ pc' = "returned"
                  /\ UNCHANGED i
    /\ UNCHANGED <<variant, input>>
    /\ UNCHANGED lrVars
    /\ UNCHANGED rdVars

\* After the loop: tokens.emplace_back(TokenType::END, ""); return tokens;
tokenizeEndWithoutMarker ==
    /\ pc = "scan"
    /\ i >= Len(input)
    /\ pc' = "returned"
    /\ UNCHANGED <<tokens, variant, input, i, lexError>>
    /\ UNCHANGED lrVars
    /\ UNCHANGED rdVars
tokenizeEnd ==
    /\ pc = "scan"
    /\ i >= Len(input)
    /\ tokens' = Append(tokens, emplace("END", <<>>, i))
    /\ pc' = "returned"
    /\ UNCHANGED <<variant, input, i, lexError>>
    /\ UNCHANGED lrVars
    /\ UNCHANGED rdVars

\* The inputs: every concatenation of at most MaxPieces of these pieces.
InputPieces == {kwWhile, kwDone, <<"I">>, <<"V">>, <<"X">>, <<"x">>, <<"i">>,
                <<"1">>, <<";">>, <<"(">>, <<")">>, <<":">>, <<"=">>, <<"<">>,
                <<">">>, <<"@">>, <<" ">>}

RECURSIVE InputsUpTo(_)
InputsUpTo(n) ==
    IF n = 0 THEN {<<>>}
    ELSE LET shorter == InputsUpTo(n - 1)
         IN  shorter \cup {p \o s : p \in InputPieces, s \in shorter}

Inputs == InputsUpTo(MaxPieces)

\* The state at the start of tokenize(input), in either file.
InitTok ==
    /\ variant \in {"hpp", "cpp"}
    /\ input \in Inputs
    /\ i = 0
    /\ lexError = FALSE
    /\ tokens = <<>>
    /\ tokensEnd = FALSE
    /\ pos = 0
    /\ stateStack = <<>>
    /\ valueStack = <<>>
    /\ prod = 0
    /\ children = <<>>
    /\ popped = 0
    /\ outcome = "none"
    /\ result = <<>>
    /\ pc = "scan"
    /\ InitHistory(0)
    /\ NoParser

NextTok == tokenizeLoop \/ tokenizeEnd

SpecTok == InitTok /\ [][NextTok]_vars

\* A second call of parse() on the same LRParser object, after the first
\* has returned: fresh stacks, stateStack.push(0), pos = 0.  tokens and the
\* tables are members and stay as they are.
parseAgainKeepsCursor ==
    /\ pc = "done"
    /\ call = 1
    /\ Len(tokens) <= MaxTokensTwice
    /\ first' = [trace |-> trace, final |-> <<stateStack, valueStack, pos>>,
                 outcome |-> outcome, result |-> result]
    /\ call' = 2
    /\ stateStack' = <<0>>
    /\ valueStack' = <<>>
    /\ pos' = pos
    /\ pc' = "head"
    /\ trace' = <<>>
    /\ shifts' = 0
    /\ outcome' = "none"
    /\ result' = <<>>
    /\ UNCHANGED <<tokens, tokensEnd, prod, children, popped, atReduce>>
    /\ UNCHANGED lexVars
    /\ UNCHANGED rdVars
parseAgain ==
    /\ pc = "done"
    /\ call = 1
    /\ Len(tokens) <= MaxTokensTwice
    /\ first' = [trace |-> trace, final |-> <<stateStack, valueStack, pos>>,
                 outcome |-> outcome, result |-> result]
    /\ call' = 2
    /\ stateStack' = <<0>>
    /\ valueStack' = <<>>
    /\ pos' = 0
    /\ pc' = "head"
    /\ trace' = <<>>
    /\ shifts' = 0
    /\ outcome' = "none"
    /\ result' = <<>>
    /\ UNCHANGED <<tokens, tokensEnd, prod, children, popped, atReduce>>
    /\ UNCHANGED lexVars
    /\ UNCHANGED rdVars

NextLRTwice == NextLR \/ parseAgain

InitLRTwice == InitLRCalls(1)

SpecLRTwice == InitLRTwice /\ [][NextLRTwice]_vars

\* parse under the scheduling of a sequential program: a step that can be
\* taken is taken.
FairSpecLR == SpecLR /\ WF_vars(NextLR)

\* ------------------------------------------------------------- Parser (main.cpp)
\* const Token &current() const { return tokens[pos]; }
current == tokens[parserPos + 1]

\* What a step of Parser leaves alone: the token vector and everything that
\* belongs to the tokenizer and to LRParser.
parserFrame ==
    /\ UNCHANGED <<tokens, pc>>
    /\ UNCHANGED lexVars
    /\ UNCHANGED lrVars

\* exit(1)
exit1 ==
    /\ parserPc' = "halt"
    /\ parserOutcome' = "exit"
    /\ UNCHANGED <<parserPos, node, whileNode, cond, assign, ast>>

\* consume(expected) when current().type is expected: pos++, and control
\* goes on at the program point next.
consumed(next) ==
    /\ parserPos' = parserPos + 1
    /\ parserPc' = next
    /\ UNCHANGED <<parserOutcome, ast>>

\* The test of parseCondition on the operator token.
isRelOpWithoutEqual(t) == t \in {"LESS", "GREATER"}
isRelOp(t) == t \in {"LESS", "GREATER", "EQUAL"}

\* The node parseExpression makes of an IDENTIFIER or ROMAN_NUMERAL token.
parseExpression(tok) ==
    IF tok.type = "IDENTIFIER"
    THEN Leaf("Identifier", tok.value)
    ELSE Leaf("RomanNumeral", tok.value)

\* node->children.push_back(child)
push_back(n, child) == [n EXCEPT !.children = Append(@, child)]

\* The vector handed to Parser is one that passed the test of main():
\* non-empty and ending in END.  It is revealed one token at a time, when
\* a parser first looks at it, and ends with the first END.  The parser
\* looking is Parser, or LRParser where the two are run on one vector.
ParserTokens ==
    /\ \/ /\ parserPc \notin {"off", "parse", "halt"}
          /\ parserPos = Len(tokens)
       \/ /\ pc = "head"
          /\ pos = Len(tokens)
    /\ ~tokensEnd
    /\ Len(tokens) < MaxTokens
    /\ \E t \in TokenType : \E v \in TextsOf(t) :
          /\ tokens' = Append(tokens, Token(t, v))
          /\ tokensEnd' = (t = "END")
    /\ UNCHANGED <<pos, stateStack, valueStack, prod, children, popped,
                   outcome, result, pc>>
    /\ UNCHANGED historyVars
    /\ UNCHANGED lexVars
    /\ UNCHANGED rdVars

\* parse() and the head of parseStatementList(): the Program and
\* StatementList nodes are made.  Program gets its child at the return.
parse ==
    /\ parserPc = "parse"
    /\ node' = ASTNode("StatementList", <<>>, <<>>)
    /\ parserPc' = "statement"
    /\ UNCHANGED <<parserPos, whileNode, cond, assign, parserOutcome, ast>>
    /\ parserFrame

\* parseStatement(): the test for 'while', consume(WHILE), the WhileLoop
\* node.
parseStatement ==
    /\ parserPc = "statement"
    /\ parserPos < Len(tokens)
    /\ IF current.type # "WHILE"
       THEN exit1
       ELSE /\ consumed("lparen")
            /\ whileNode' = ASTNode("WhileLoop", <<>>, <<>>)
            /\ UNCHANGED <<node, cond, assign>>
    /\ parserFrame

\* parseStatement(): consume(LPAREN); parseCondition() makes its node.
parseStatementLParen ==
    /\ parserPc = "lparen"
    /\ parserPos < Len(tokens)
    /\ IF current.type # "LPAREN"
       THEN exit1
       ELSE /\ consumed("condLeft")
            /\ cond' = ASTNode("Condition", <<>>, <<>>)
            /\ UNCHANGED <<node, whileNode, assign>>
    /\ parserFrame

\* parseCondition(): the left parseExpression().
parseConditionLeft ==
    /\ parserPc = "condLeft"
    /\ parserPos < Len(tokens)
    /\ IF current.type \notin {"IDENTIFIER", "ROMAN_NUMERAL"}
       THEN exit1
       ELSE /\ consumed("relop")
            /\ cond' = push_back(cond, parseExpression(current))
            /\ UNCHANGED <<node, whileNode, assign>>
    /\ parserFrame

\* parseCondition(): the relational operator.
parseConditionRelOp ==
    /\ parserPc = "relop"
    /\ parserPos < Len(tokens)
    /\ IF ~isRelOp(current.type)
       THEN exit1
       ELSE /\ consumed("condRight")
            /\ cond' = push_back(cond, Leaf("RelOp", current.value))
            /\ UNCHANGED <<node, whileNode, assign>>
    /\ parserFrame

\* parseCondition(): the right parseExpression() and the return into
\* parseStatement(), which appends the Condition to the WhileLoop.
parseConditionRight ==
    /\ parserPc = "condRight"
    /\ parserPos < Len(tokens)
    /\ IF current.type \notin {"IDENTIFIER", "ROMAN_NUMERAL"}
       THEN exit1
       ELSE /\ consumed("rparen")
            /\ cond' = push_back(cond, parseExpression(current))
            /\ whileNode' = push_back(whileNode, cond')
            /\ UNCHANGED <<node, assign>>
    /\ parserFrame

\* parseStatement(): consume(RPAREN); parseBody() makes its node.
parseStatementRParen ==
    /\ parserPc = "rparen"
    /\ parserPos < Len(tokens)
    /\ IF current.type # "RPAREN"
       THEN exit1
       ELSE /\ consumed("lvalue")
            /\ assign' = ASTNode("Assignment", <<>>, <<>>)
            /\ UNCHANGED <<node, whileNode, cond>>
    /\ parserFrame

\* parseBody(): the identifier on the left of the assignment.
parseBodyLValue ==
    /\ parserPc = "lvalue"
    /\ parserPos < Len(tokens)
    /\ IF current.type # "IDENTIFIER"
       THEN exit1
       ELSE /\ consumed("assign")
            /\ assign' = push_back(assign, Leaf("LValue", current.value))
            /\ UNCHANGED <<node, whileNode, cond>>
    /\ parserFrame

\* parseBody(): consume(ASSIGN).
parseBodyAssign ==
    /\ parserPc = "assign"
    /\ parserPos < Len(tokens)
    /\ IF current.type # "ASSIGN"
       THEN exit1
       ELSE /\ consumed("rhs")
            /\ UNCHANGED <<node, whileNode, cond, assign>>
    /\ parserFrame

\* parseBody(): parseExpression() and the return into parseStatement(),
\* which appends the Assignment to the WhileLoop.
parseBodyExpression ==
    /\ parserPc = "rhs"
    /\ parserPos < Len(tokens)
    /\ IF current.type \notin {"IDENTIFIER", "ROMAN_NUMERAL"}
       THEN exit1
       ELSE /\ consumed("done")
            /\ assign' = push_back(assign, parseExpression(current))
            /\ whileNode' = push_back(whileNode, assign')
            /\ UNCHANGED <<node, cond>>
    /\ parserFrame

\* parseStatement(): consume(DONE) and the return into
\* parseStatementList(), which appends the WhileLoop to the list.
parseStatementDone ==
    /\ parserPc = "done"
    /\ parserPos < Len(tokens)
    /\ IF current.type # "DONE"
       THEN exit1
       ELSE /\ consumed("listLoop")
            /\ node' = push_back(node, whileNode)
            /\ UNCHANGED <<whileNode, cond, assign>>
    /\ parserFrame

\* The while test of parseStatementList().
listContinuesPastEnd(t) == t \in {"SEMICOLON", "END"}
listContinues(t) == t = "SEMICOLON"

\* parseStatementList(): on ';' consume it and parse one more statement;
\* on any other token return the list, and parse() returns the Program.
parseStatementList ==
    /\ parserPc = "listLoop"
    /\ parserPos < Len(tokens)
    /\ IF listContinues(current.type)
       THEN /\ consumed("statement")
            /\ UNCHANGED <<node, whileNode, cond, assign>>
       ELSE /\ ast' = <<ASTNode("Program", <<>>, <<node>>)>>
            /\ parserOutcome' = "returned"
            /\ parserPc' = "halt"
            /\ UNCHANGED <<parserPos, node, whileNode, cond, assign>>
    /\ parserFrame

\* Parser parser(tokens), with nothing of LRParser and tokenize in play.
InitRD ==
    /\ variant = "cpp"
    /\ input = <<>>
    /\ i = 0
    /\ lexError = FALSE
    /\ tokens = <<>>
    /\ tokensEnd = FALSE
    /\ pos = 0
    /\ stateStack = <<>>
    /\ valueStack = <<>>
    /\ prod = 0
    /\ children = <<>>
    /\ popped = 0
    /\ outcome = "none"
    /\ result = <<>>
    /\ pc = "off"
    /\ InitHistory(0)
    /\ parserPos = 0
    /\ node = <<>>
    /\ whileNode = <<>>
    /\ cond = <<>>
    /\ assign = <<>>
    /\ parserPc = "parse"
    /\ parserOutcome = "none"
    /\ ast = <<>>

NextRD ==
    \/ ParserTokens
    \/ parse
    \/ parseStatement
    \/ parseStatementLParen
    \/ parseConditionLeft
    \/ parseConditionRelOp
    \/ parseConditionRight
    \/ parseStatementRParen
    \/ parseBodyLValue
    \/ parseBodyAssign
    \/ parseBodyExpression
    \/ parseStatementDone
    \/ parseStatementList

SpecRD == InitRD /\ [][NextRD]_vars

\* Both parsers on one token vector that ends in END: LRParser::parse
\* runs first, then a Parser is constructed on the same vector.
Parser ==
    /\ pc = "done"
    /\ parserPc = "off"
    /\ parserPc' = "parse"
    /\ parserPos' = 0
    /\ UNCHANGED <<node, whileNode, cond, assign, parserOutcome, ast>>
    /\ parserFrame

NextBoth ==
    \/ ParserTokens
    \/ parseLoop
    \/ reducePop
    \/ reduceGoto
    \/ Parser
    \/ parse
    \/ parseStatement
    \/ parseStatementLParen
    \/ parseConditionLeft
    \/ parseConditionRelOp
    \/ parseConditionRight
    \/ parseStatementRParen
    \/ parseBodyLValue
    \/ parseBodyAssign
    \/ parseBodyExpression
    \/ parseStatementDone
    \/ parseStatementList

SpecBoth == InitLR /\ [][NextBoth]_vars

\* ------------------------------------------------------------- main (main.cpp)
\* testInputs[0] and testInputs[1] of main().
testInput0 ==
    <<"w", "h", "i", "l", "e", " ", "(", "x", " ", "<", " ", "V", ")", " ",
      "y", " ", ":", "=", " ", "I", " ", "d", "o", "n", "e">>
testInput1 ==
    <<"w", "h", "i", "l", "e", " ", "(", "a", " ", "=", " ", "I", ")", " ",
      "b", " ", ":", "=", " ", "X", " ", "d", "o", "n", "e", ";", " ", "w",
      "h", "i", "l", "e", " ", "(", "n", " ", ">", " ", "I", "I", "I", ")",
      " ", "m", " ", ":", "=", " ", "a", " ", "d", "o", "n", "e">>

\* The inputs main() is run on here: every beginning of one of the two test
\* inputs, followed by at most MaxTail further pieces.
MainInputs ==
    UNION {{SubSeq(t, 1, n) \o tail : n \in 0..Len(t),
                                       tail \in InputsUpTo(MaxTail)} :
           t \in {testInput0, testInput1}}

\* What main() requires of the vector before it runs a parser on it:
\* !(tokens.empty() || tokens.back().type != TokenType::END).
Usable(toks) == toks # <<>> /\ toks[Len(toks)].type = "END"

\* The body of the loop of main() up to the construction of the Parser:
\* tokenize has returned; on (tokens.empty() || tokens.back().type != END)
\* main reports the lexical failure and goes on to the next input,
\* otherwise it constructs Parser parser(tokens).
main ==
    /\ pc = "returned"
    /\ parserPc = "off"
    /\ IF ~Usable(tokens)
       THEN /\ pc' = "lexFailed"
            /\ UNCHANGED <<tokensEnd, parserPc, parserPos>>
       ELSE /\ pc' = "parsing"
            /\ tokensEnd' = TRUE
            /\ parserPc' = "parse"
            /\ parserPos' = 0
    /\ UNCHANGED <<tokens, pos, stateStack, valueStack, prod, children, popped,
                   outcome, result>>
    /\ UNCHANGED <<node, whileNode, cond, assign, parserOutcome, ast>>
    /\ UNCHANGED historyVars
    /\ UNCHANGED lexVars

\* The state at the start of tokenize(testInputs[idx]) in main().
InitMain ==
    /\ variant = "cpp"
    /\ input \in MainInputs
    /\ i = 0
    /\ lexError = FALSE
    /\ tokens = <<>>
    /\ tokensEnd = FALSE
    /\ pos = 0
    /\ stateStack = <<>>
    /\ valueStack = <<>>
    /\ prod = 0
    /\ children = <<>>
    /\ popped = 0
    /\ outcome = "none"
    /\ result = <<>>
    /\ pc = "scan"
    /\ InitHistory(0)
    /\ NoParser

\* One pass of the loop of main(): tokenize, the failure test, the Parser.
\* A step of Parser is taken only with its cursor inside the vector.
NextMain ==
    \/ tokenizeLoop
    \/ tokenizeEnd
    \/ main
    \/ parse
    \/ parseStatement
    \/ parseStatementLParen
    \/ parseConditionLeft
    \/ parseConditionRelOp
    \/ parseConditionRight
    \/ parseStatementRParen
    \/ parseBodyLValue
    \/ parseBodyAssign
    \/ parseBodyExpression
    \/ parseStatementDone
    \/ parseStatementList

SpecMain == InitMain /\ [][NextMain]_vars

\* ------------------------------------------------------------- the grammar
\* The grammar of the documentation: n >= 1 statements
\*   while ( E relop E ) id := E done
\* separated by ; and followed by END, E an Identifier or a RomanNumeral.
ExpressionTypes == {"IDENTIFIER", "ROMAN_NUMERAL"}
RelOpTypes == {"LESS", "GREATER", "EQUAL"}

\* The token types the grammar allows at 1-based index k of a program.
SlotTypes(k) ==
    LET slot == (k - 1) % 11
    IN  CASE slot = 0 -> {"WHILE"}
          [] slot = 1 -> {"LPAREN"}
          [] slot \in {2, 4, 8} -> ExpressionTypes
          [] slot = 3 -> RelOpTypes
          [] slot = 5 -> {"RPAREN"}
          [] slot = 6 -> {"IDENTIFIER"}
          [] slot = 7 -> {"ASSIGN"}
          [] slot = 9 -> {"DONE"}
          [] slot = 10 -> {"SEMICOLON", "END"}

\* toks is the beginning of some valid program.
IsProgramPrefix(toks) ==
    /\ \A k \in 1..Len(toks) : toks[k].type \in SlotTypes(k)
    /\ \A k \in 1..(Len(toks) - 1) : toks[k].type # "END"

\* toks is a valid program.
IsProgram(toks) ==
    /\ toks # <<>>
    /\ IsProgramPrefix(toks)
    /\ toks[Len(toks)].type = "END"

\* A statement is 10 tokens and the ; or END after it.
NumStatements(toks) == Len(toks) \div 11

\* ------------------------------------------------------------- claims C1..C7
\* C1: parse of a valid program of n statements reaches Accept and returns
\* a Program node whose only child is a StatementList with n children.
C1_ValidProgramAccepted ==
    (pc = "done" /\ IsProgram(tokens)) =>
        /\ outcome = "Accept"
        /\ Len(result) = 1
        /\ result[1].type = "Program"
        /\ Len(result[1].children) = 1
        /\ result[1].children[1].type = "StatementList"
        /\ Len(result[1].children[1].children) = NumStatements(tokens)

\* C2: parse of a token sequence that is not a valid program ends in the
\* unexpected-token outcome, in no other failure, and returns no tree.  The
\* tokens read when parse returns begin no valid program, so every sequence
\* that starts with them is invalid.
C2_InvalidIsUnexpectedToken ==
    (pc = "done" /\ ~IsProgramPrefix(tokens)) =>
        (outcome = "UnexpectedToken" /\ result = <<>>)

\* C3: at the head of every pass of the driver loop the state stack has
\* exactly one more entry than the value stack.
C3_StacksInLockStep ==
    pc = "head" => Len(stateStack) = Len(valueStack) + 1

\* C3 witness: the head of the loop after shifts and a completed reduce by
\* the Condition production.
C3_Witness ==
    /\ pc = "head"
    /\ Len(valueStack) = 3
    /\ top(valueStack).type = "Condition"

\* C4: the state stack is never empty and its bottom entry is state 0, also
\* inside a reduce whose rhsSize exceeds the symbols on the value stack.
C4_BottomIsInitialState ==
    /\ stateStack # <<>>
    /\ stateStack[1] = 0

\* C4 witness: the Statement reduce (rhsSize 7) has emptied the value stack
\* after six pops and returned with state 0 still on the state stack.
C4_Witness ==
    /\ pc = "done"
    /\ outcome = "StackEmpty"
    /\ prod = 4
    /\ popped < rhsSize(prod)
    /\ valueStack = <<>>
    /\ stateStack = <<0>>

\* C5: parse terminates on every token sequence.
C5_Terminates == <>(pc = "done")

\* C5 witness: parse has returned after shifts and reduces, the last reduce
\* finding no GOTO entry.
C5_Witness ==
    /\ pc = "done"
    /\ outcome = "NoGotoEntry"
    /\ Len(valueStack) > 2

\* C6: the node built by the Condition production has three children: an
\* Identifier or RomanNumeral leaf, a RelOp leaf with the operator's
\* spelling, an Identifier or RomanNumeral leaf.
C6_ConditionChildren ==
    \A k \in 1..Len(valueStack) :
        valueStack[k].type = "Condition" =>
            LET ch == valueStack[k].children
            IN  /\ Len(ch) = 3
                /\ ch[1].type \in {"Identifier", "RomanNumeral"}
                /\ ch[2].type = "RelOp"
                /\ ch[2].value \in {<<"<">>, <<">">>, <<"=">>}
                /\ ch[3].type \in {"Identifier", "RomanNumeral"}
                /\ \A c \in 1..3 : ch[c].children = <<>>

\* The tokens begin: while ( E relop relop.
DoubleRelOp(toks) ==
    /\ Len(toks) >= 5
    /\ toks[1].type = "WHILE"
    /\ toks[2].type = "LPAREN"
    /\ toks[3].type \in ExpressionTypes
    /\ toks[4].type \in RelOpTypes
    /\ toks[5].type \in RelOpTypes

\* C7: on while ( E relop relop the cursor stops on the second operator
\* (index 4), no token after it is read, and parse fails with the
\* unexpected-token outcome.
C7_DoubleRelOpRejected ==
    DoubleRelOp(tokens) =>
        /\ pos = 4
        /\ Len(tokens) = 5
        /\ Len(valueStack) = 4
        /\ pc \in {"head", "done"}
        /\ pc = "done" => (outcome = "UnexpectedToken" /\ result = <<>>)

\* C7 witness: parse has failed on the second operator.
C7_Witness ==
    /\ DoubleRelOp(tokens)
    /\ pc = "done"
    /\ outcome = "UnexpectedToken"
    /\ pos = 4

\* ------------------------------------------------------------- claims C8..C10
\* The character at index k starts no rule of tokenize.
StartsNoRule(inp, k) ==
    LET c == inp[k + 1]
    IN  /\ ~isspace(c)
        /\ ~isalpha(c)
        /\ c \notin {";", "(", ")", "<", ">", "="}
        /\ ~(c = ":" /\ k + 1 < Len(inp) /\ inp[k + 2] = "=")

\* C8: on a character that starts no rule tokenize stops with the scan index
\* on that character and returns no usable token sequence.
C8_LexErrorUnusable ==
    (pc = "returned" /\ lexError) =>
        /\ i < Len(input)
        /\ StartsNoRule(input, i)
        /\ ~Usable(tokens)

\* toks ends with END and holds no other END.
EndsWithOneEnd(toks) ==
    /\ toks # <<>>
    /\ toks[Len(toks)].type = "END"
    /\ \A k \in 1..(Len(toks) - 1) : toks[k].type # "END"

\* C9 as stated: every token sequence tokenize returns ends with exactly one
\* END token.
C9_EndsWithOneEnd ==
    pc = "returned" => EndsWithOneEnd(tokens)

\* C9 amended: every token sequence tokenize returns ends with exactly one
\* END token, except that main.hpp's tokenize returns the empty vector when
\* it meets an invalid character.
C9_EndsWithOneEndOrEmpty ==
    pc = "returned" =>
        IF variant = "hpp" /\ lexError
        THEN tokens = <<>>
        ELSE EndsWithOneEnd(tokens)

\* C9 witness: a scan without an invalid character has returned three tokens
\* and the END marker.
C9_Witness ==
    /\ pc = "returned"
    /\ ~lexError
    /\ Len(tokens) = 4

\* C10: a token of the alphanumeric-run rule is a RomanNumeral if and only
\* if its text is non-empty and made of I, V, X only; otherwise it is an
\* Identifier.
C10_RomanIffOnlyIVX ==
    \A k \in 1..Len(tokens) :
        tokens[k].type \in {"IDENTIFIER", "ROMAN_NUMERAL"} =>
            (tokens[k].type = "ROMAN_NUMERAL" <=>
                /\ tokens[k].value # <<>>
                /\ \A j \in 1..Len(tokens[k].value) :
                      tokens[k].value[j] \in {"I", "V", "X"})

\* C10 witness: tokenize has returned a RomanNumeral of two characters or an
\* Identifier that holds a roman character next to another one.
C10_Witness ==
    /\ pc = "returned"
    /\ \E k \in 1..Len(tokens) :
          /\ tokens[k].type = "IDENTIFIER"
          /\ \E j \in 1..Len(tokens[k].value) :
                tokens[k].value[j] \in {"I", "V", "X"}

C14_NoEmptyStackAtReduce ==
    /\ pc = "reduce" => Len(atReduce.valueStack) >= rhsSize(prod)
    /\ outcome # "StackEmpty"

\* C15: after the pops of a reduce the GOTO lookup succeeds: neither 'no
\* GOTO for state' nor 'no transition for nonterminal' is reached.
C15_GotoLookupSucceeds ==
    /\ outcome \notin {"NoGotoState", "NoGotoEntry"}
    /\ (pc = "reduce" /\ popped = rhsSize(prod)) =>
          /\ top(stateStack) \in DOMAIN gotoTable
          /\ lhs(prod) \in DOMAIN gotoTable[top(stateStack)]

\* C16: every state on top of the state stack at a loop head (state 0, a
\* Shift target, a GOTO target) has a row in the ACTION table; 'state not
\* found' is never reached.
C16_StateHasActionRow ==
    /\ pc = "head" => top(stateStack) \in DOMAIN actionTable
    /\ outcome # "StateNotFound"

\* C16 witness: the loop head in state 19, the GOTO target of Body.
C16_Witness ==
    /\ pc = "head"
    /\ top(stateStack) = 19
    /\ top(valueStack).type = "Assignment"

\* A step of parse that is a Shift.
IsShiftStep == shifts' = shifts + 1

\* C17: a Shift pushes one state (the table's target) and one leaf with the
\* current token's text and advances the cursor by one; any other step
\* leaves the cursor alone; no step changes a token of the sequence; the
\* number of Shift steps equals the cursor.
C17_ShiftIsTheOnlyConsumer ==
    /\ [](shifts = pos)
    /\ [][/\ Len(tokens') >= Len(tokens)
          /\ SubSeq(tokens', 1, Len(tokens)) = tokens
          /\ IsShiftStep =>
                /\ pos < Len(tokens)
                /\ pos' = pos + 1
                /\ stateStack' = Append(stateStack,
                      actionTable[top(stateStack)][tokens[pos + 1].type].value)
                /\ valueStack' = Append(valueStack,
                      [type |-> "Token", value |-> tokens[pos + 1].value,
                       children |-> <<>>])
          /\ ~IsShiftStep => pos' = pos
          /\ pc = "reduce" => (pos' = pos /\ ~IsShiftStep)]_vars

\* C17 witness: five tokens shifted and a reduce by Condition completed.
C17_Witness ==
    /\ pc = "head"
    /\ shifts = 5
    /\ pos = 5
    /\ Len(valueStack) = 3

\* C18: a completed Reduce by p removes p.rhsSize entries from each stack,
\* hands the removed values to the builder in bottom-to-top order, pushes
\* one node and one state, and leaves the entries below unchanged.
C18_ReduceReplacesRhsSize ==
    [][(pc = "reduce" /\ pc' = "head") =>
          LET r == rhsSize(prod)
              vs == atReduce.valueStack
              ss == atReduce.stateStack
              removed == SubSeq(vs, Len(vs) - r + 1, Len(vs))
          IN  /\ Len(vs) >= r
              /\ children = removed
              /\ valueStack' = Append(SubSeq(vs, 1, Len(vs) - r),
                                      builder(prod, removed))
              /\ stateStack' = Append(SubSeq(ss, 1, Len(ss) - r),
                                      gotoTable[ss[Len(ss) - r]][lhs(prod)])]_vars

\* C18 witness: the loop head after the reduce by Assignment (rhsSize 3).
C18_Witness ==
    /\ pc = "head"
    /\ top(stateStack) = 27
    /\ top(valueStack).type = "Assignment"
    /\ Len(atReduce.valueStack) = Len(valueStack) + 2

\* C19: the children handed to the Statement builder are the symbols of one
\* statement: children[2] is a Condition node and children[4] an Assignment
\* node, and the WhileLoop node has exactly those two children.
C19_StatementChildren ==
    /\ (pc = "reduce" /\ prod = 4 /\ popped = rhsSize(prod)) =>
          /\ children[3].type = "Condition"
          /\ children[5].type = "Assignment"
    /\ \A k \in 1..Len(valueStack) :
          valueStack[k].type = "WhileLoop" =>
              /\ Len(valueStack[k].children) = 2
              /\ valueStack[k].children[1].type = "Condition"
              /\ valueStack[k].children[2].type = "Assignment"

\* ------------------------------------------------------------- claim C13
\* C13: a second call of parse() on the same object goes through the same
\* (state stack, value stack, cursor) configurations as the first call and
\* ends in the same outcome with the same tree.
C13_SecondCallRepeatsFirst ==
    call = 2 =>
        /\ Len(trace) <= Len(first.trace)
        /\ trace = SubSeq(first.trace, 1, Len(trace))
        /\ pc = "head" =>
              /\ Len(trace) < Len(first.trace)
              /\ <<stateStack, valueStack, pos>> = first.trace[Len(trace) + 1]
        /\ pc = "done" =>
              /\ trace = first.trace
              /\ <<stateStack, valueStack, pos>> = first.final
              /\ outcome = first.outcome
              /\ result = first.result

\* C13 witness: the second call has returned after shifts and reduces.
C13_Witness ==
    /\ call = 2
    /\ pc = "done"
    /\ Len(trace) > 11
    /\ pos > 0

\* ------------------------------------------------------------- claims C11, C20
\* C11: on a valid program of n statements Parser::parse reaches no exit(1)
\* and returns Program -> StatementList with n WhileLoop children, each a
\* Condition (Expression, RelOp, Expression) followed by an Assignment
\* (LValue, Expression), with the texts of the tokens they were made of.
\* The tokens the parser has looked at when it stops are a whole program
\* whenever they begin one.
C11_ValidProgramParsed ==
    (parserPc = "halt" /\ IsProgramPrefix(tokens)) =>
        /\ IsProgram(tokens)
        /\ parserOutcome = "returned"
        /\ Len(ast) = 1
        /\ ast[1].type = "Program"
        /\ Len(ast[1].children) = 1
        /\ LET list == ast[1].children[1]
           IN  /\ list.type = "StatementList"
               /\ Len(list.children) = NumStatements(tokens)
               /\ \A k \in 1..Len(list.children) :
                     LET w == list.children[k]
                         at(j) == tokens[11 * (k - 1) + j]
                         Expr(tok) ==
                             Leaf(IF tok.type = "IDENTIFIER"
                                  THEN "Identifier" ELSE "RomanNumeral",
                                  tok.value)
                     IN  /\ w.type = "WhileLoop"
                         /\ Len(w.children) = 2
                         /\ w.children[1] =
                               ASTNode("Condition", <<>>,
                                       <<Expr(at(3)),
                                         Leaf("RelOp", at(4).value),
                                         Expr(at(5))>>)
                         /\ w.children[2] =
                               ASTNode("Assignment", <<>>,
                                       <<Leaf("LValue", at(7).value),
                                         Expr(at(9))>>)

\* C11 witness: a valid program of two statements has been parsed.
C11_Witness ==
    /\ parserPc = "halt"
    /\ parserOutcome = "returned"
    /\ IsProgram(tokens)
    /\ NumStatements(tokens) = 2
    /\ Len(ast[1].children[1].children) = 2

\* C20: on one token vector LRParser::parse returns a tree exactly when
\* Parser::parse returns without exit(1), and then the two trees are equal.
C20_ParsersAgree ==
    (pc = "done" /\ parserPc = "halt") =>
        /\ (result # <<>>) <=> (parserOutcome = "returned")
        /\ (result # <<>> /\ parserOutcome = "returned") => result = ast

\* ------------------------------------------------------------- claims C22, C26
\* text begins with the characters of word.
StartsWith(text, word) ==
    /\ Len(text) >= Len(word)
    /\ SubSeq(text, 1, Len(word)) = word

\* word stands in text at some offset after the first character.
HoldsLater(text, word) ==
    \E k \in 2..Len(text) : StartsWith(SubSeq(text, k, Len(text)), word)

\* C22: at a scan position that is not whitespace and whose next five
\* characters are `while` tokenize emits a While token and moves five
\* characters on, whatever follows; likewise a Done token for `done` and
\* four characters; so no Identifier's text begins with `while` or `done`.
C22_KeywordsFirst ==
    /\ [](\A k \in 1..Len(tokens) :
            tokens[k].type = "IDENTIFIER" =>
                /\ ~StartsWith(tokens[k].value, kwWhile)
                /\ ~StartsWith(tokens[k].value, kwDone))
    /\ [][(pc = "scan" /\ i < Len(input) /\ ~isspace(input[i + 1])) =>
            /\ substr(input, i, 5) = kwWhile =>
                  /\ tokens' = Append(tokens, emplace("WHILE", kwWhile, i))
                  /\ i' = i + 5
            /\ (substr(input, i, 5) # kwWhile /\ substr(input, i, 4) = kwDone) =>
                  /\ tokens' = Append(tokens, emplace("DONE", kwDone, i))
                  /\ i' = i + 4]_vars

\* C22 witness: tokenize has returned a While token followed by a token of
\* the alphanumeric-run rule that started right behind it, or an Identifier
\* that holds a keyword at a later offset.
C22_Witness ==
    /\ pc = "returned"
    /\ \/ /\ Len(tokens) >= 2
          /\ tokens[1].type = "WHILE"
          /\ tokens[2].type \in {"IDENTIFIER", "ROMAN_NUMERAL"}
          /\ Len(input) = 5 + Len(tokens[2].value)
       \/ \E k \in 1..Len(tokens) :
             /\ tokens[k].type = "IDENTIFIER"
             /\ \/ HoldsLater(tokens[k].value, kwWhile)
                \/ HoldsLater(tokens[k].value, kwDone)

\* The texts of toks one after the other.
RECURSIVE Texts(_)
Texts(toks) ==
    IF toks = <<>> THEN <<>>
    ELSE Texts(SubSeq(toks, 1, Len(toks) - 1)) \o toks[Len(toks)].value

\* s without its whitespace characters.
RECURSIVE WithoutSpace(_)
WithoutSpace(s) ==
    IF s = <<>> THEN <<>>
    ELSE LET rest == WithoutSpace(SubSeq(s, 1, Len(s) - 1))
         IN  IF isspace(s[Len(s)]) THEN rest ELSE rest \o <<s[Len(s)]>>

\* C26: while tokenize scans without meeting an invalid character the texts
\* of the tokens emitted so far, in order, are the scanned part of the input
\* with its whitespace removed; the scan index never moves back; on return
\* the texts are the whole input with its whitespace removed.
C26_TextsAreInput ==
    /\ [](~lexError =>
            /\ i <= Len(input)
            /\ Texts(tokens) = WithoutSpace(SubSeq(input, 1, i))
            /\ pc = "returned" => Texts(tokens) = WithoutSpace(input))
    /\ [][i' >= i]_vars

\* C26 witness: tokenize has returned from an input that holds whitespace,
\* a keyword and another token.
C26_Witness ==
    /\ pc = "returned"
    /\ ~lexError
    /\ Len(tokens) = 3
    /\ Len(input) > Len(Texts(tokens))
    /\ \E k \in 1..2 : tokens[k].type \in {"WHILE", "DONE"}

\* ------------------------------------------------------------- claims C23, C24
\* C23: LRParser::parse never shifts an END token, so the cursor stays at or
\* before the first END of the vector and never leaves the vector; on the
\* empty vector the lookahead is END and parse fails in state 0, nothing
\* shifted, with the unexpected-token outcome.
C23_EndNeverShifted ==
    /\ pos <= Len(tokens)
    /\ \A k \in 1..Min(pos, Len(tokens)) : tokens[k].type # "END"
    /\ (pos = Len(tokens) /\ tokensEnd /\ pc = "head") =>
          getCurrentTokenType = "END"
    /\ (tokens = <<>> /\ tokensEnd /\ pc = "done") =>
          /\ outcome = "UnexpectedToken"
          /\ result = <<>>
          /\ stateStack = <<0>>
          /\ pos = 0

\* C23 witness: parse has returned on the empty vector.
C23_Witness ==
    /\ tokens = <<>>
    /\ tokensEnd
    /\ pc = "done"
    /\ outcome = "UnexpectedToken"

\* C24: Parser::parse returns only with its cursor on the END token, so a
\* statement list followed by further tokens is rejected.
C24_ReturnsOnlyAtEnd ==
    (parserPc = "halt" /\ parserOutcome = "returned") =>
        /\ parserPos < Len(tokens)
        /\ tokens[parserPos + 1].type = "END"

\* ------------------------------------------------------------- claims C21, C25
\* C21: main() takes its lexical-failure branch exactly on the inputs on
\* which tokenize met an invalid character, and runs no Parser on them.
C21_FailureBranchIffLexError ==
    /\ pc \in {"lexFailed", "parsing"} => ((pc = "lexFailed") <=> lexError)
    /\ lexError => parserPc = "off"

\* C25: on a vector that comes out of main.cpp's tokenize the cursor of
\* Parser stays below tokens.size() and no END token is ever behind it.
C25_CursorInsideVector ==
    parserPc # "off" =>
        /\ parserPos < Len(tokens)
        /\ \A k \in 1..parserPos : tokens[k].type # "END"

\* C25 witness: Parser has stopped with its cursor on the END token after a
\* whole statement.
C25_Witness ==
    /\ parserPc = "halt"
    /\ parserPos >= 10
    /\ parserPos = Len(tokens) - 1
    /\ tokens[parserPos + 1].type = "END"

====
